---- MODULE Spec2Model ----
(***************************************************************************)
(* A model of HashMap<keyT, valueT> (src/hashMap.hpp): a separate-chaining *)
(* hash table with a bucket array of vectors of pairs, a stored element    *)
(* count _size and a bucket count _capacity that is doubled and halved by  *)
(* resize().                                                               *)
(*                                                                         *)
(* A table is a record [buckets, size, capacity]; buckets is the array     *)
(* _buckets (C++ index i is element i + 1 here), each bucket a sequence of *)
(* pairs [first, second].  The operations are operators from tables to     *)
(* tables, written statement by statement after the methods, and the       *)
(* actions apply them to the tables of the state.                          *)
(***************************************************************************)
EXTENDS Integers, Sequences, FiniteSets, TLC

\* ------------------------------------------------------------------ bounds
\* Keys are 1..NumKeys.
NumKeys == 2
\* Stored values are 1..NumVals.
NumVals == 2
\* No operation is started whose result would have more than 2^MaxCapLog
\* buckets (clear() leaves _size stale, so capacity can grow without bound).
MaxCapLog == 4
\* In the two-table specification, keys are 1..NumKeys2.
NumKeys2 == 1

\* Where the order of insertion is followed, keys are 1..NumKeys3 and the
\* calls are numbered 1..MaxStamp.
NumKeys3 == 3
MaxStamp == 4

\* In the constructor from two vectors, each vector has up to MaxLen
\* elements.
MaxLen == 3
\* The long run of distinct keys: 1..LongRun.  13 is the number of pairs that
\* takes a table of capacity 16 over the load factor 0.75.
LongRun == 13
\* A long run of keys is followed by up to MaxTail more pairs.
MaxTail == 1

\* --------------------------------------------------------------- constants
DEF_CAPACITY == 16

UP == "UP"
DOWN == "DOWN"

Keys == 1..NumKeys
Keys2 == 1..NumKeys2
Values == 1..NumVals
Tabs == {"a", "b"}

\* The std::exception thrown by bucketIndex (and passed on by at), as a
\* value that is no bucket index and no stored value.
KeyNotFound == -1

RECURSIVE Pow2(_)
Pow2(n) == IF n = 0 THEN 1 ELSE 2 * Pow2(n - 1)

MaxCapacity == Pow2(MaxCapLog)

\* ----------------------------------------------------------------- hashing
\* std::hash<keyT>()(item): a deterministic hash of the key type.  Keys
\* 2i-1 and 2i differ by 8, so they share a bucket up to capacity 8 and
\* part at capacity 16; keys of different pairs meet at the small capacities.
Hash(key) == 8 * ((key - 1) % 2) + (key + 1) \div 2

\* The bitwise and of two's-complement integers (x >= 0).
RECURSIVE BitAnd(_, _)
BitAnd(x, y) ==
    IF x = 0 \/ y = 0 THEN 0
    ELSE (x % 2) * (y % 2) + 2 * BitAnd(x \div 2, y \div 2)

hashy(t, key) == BitAnd(Hash(key), t.capacity - 1)

\* _buckets[i]
Bucket(t, i) == t.buckets[i + 1]

\* The position (1-based) of key in bucket i, 0 when it is not there.
PosIn(bucket, key) ==
    IF \E j \in 1..Len(bucket) : bucket[j].first = key
    THEN CHOOSE j \in 1..Len(bucket) :
            /\ bucket[j].first = key
            /\ \A l \in 1..(j - 1) : bucket[l].first # key
    ELSE 0

bucketIndex(t, key) ==
    LET i == hashy(t, key)
    IN  IF PosIn(Bucket(t, i), key) # 0 THEN i ELSE KeyNotFound

containsKey(t, key) == bucketIndex(t, key) # KeyNotFound

size(t) == t.size

capacity(t) == t.capacity

\* A high bound of 1: double(_size) / _capacity > 1.
AboveFull(t) == t.size > t.capacity

\* getLoadFactor() > DEF_HIGH_BOUND: double(_size) / _capacity > 0.75.
AboveHighBound(t) == 4 * t.size > 3 * t.capacity

\* The low bound taken inclusively: double(_size) / _capacity <= 0.25.
AtOrBelowLowBound(t) == 4 * t.size <= t.capacity

\* getLoadFactor() < DEF_LOW_BOUND: double(_size) / _capacity < 0.25.
BelowLowBound(t) == 4 * t.size < t.capacity

EmptyBuckets(n) == [i \in 1..n |-> <<>>]

\* HashMap()
NewHashMap ==
    [buckets |-> EmptyBuckets(DEF_CAPACITY), size |-> 0, capacity |-> DEF_CAPACITY]

clear(t) == [t EXCEPT !.buckets = [i \in DOMAIN t.buckets |-> <<>>]]

\* The pairs of a bucket array, bucket by bucket, each bucket front to back:
\* the order of resize's two loops.
RECURSIVE Flatten(_, _)
Flatten(buckets, i) ==
    IF i > Len(buckets) THEN <<>> ELSE buckets[i] \o Flatten(buckets, i + 1)

\* ------------------------------------------------------- insert and resize
RECURSIVE insert(_, _, _)
RECURSIVE resize(_, _)
RECURSIVE InsertAll(_, _)

\* insert() of each pair of a sequence in turn.
InsertAll(t, pairs) ==
    IF pairs = <<>> THEN t
    ELSE InsertAll(insert(t, Head(pairs).first, Head(pairs).second), Tail(pairs))

\* insert without the containsKey test: the pair is appended in any case.
insertNoCheck(t, key, value) ==
    IF t.capacity = 0 THEN t
    ELSE LET keyHash == hashy(t, key)
             t1 == [t EXCEPT !.buckets[keyHash + 1] =
                                  Append(@, [first |-> key, second |-> value]),
                             !.size = @ + 1]
         IN  IF AboveHighBound(t1) THEN resize(t1, UP) ELSE t1

\* insert with the pair put at the front of its bucket.
insertFront(t, key, value) ==
    IF t.capacity = 0 THEN t
    ELSE IF containsKey(t, key) THEN t
    ELSE LET keyHash == hashy(t, key)
             t1 == [t EXCEPT !.buckets[keyHash + 1] =
                                  <<[first |-> key, second |-> value]>> \o @,
                             !.size = @ + 1]
         IN  IF AboveHighBound(t1) THEN resize(t1, UP) ELSE t1

\* With _capacity 0 the bucket index is outside the (empty) array and the
\* call has undefined behaviour; no action is taken on such a table, and the
\* operator leaves it as it is.
insert(t, key, value) ==
    IF t.capacity = 0 THEN t
    ELSE IF containsKey(t, key) THEN t
    ELSE LET keyHash == hashy(t, key)
             t1 == [t EXCEPT !.buckets[keyHash + 1] =
                                  Append(@, [first |-> key, second |-> value]),
                             !.size = @ + 1]
         IN  IF AboveHighBound(t1) THEN resize(t1, UP) ELSE t1

insertRet(t, key) == ~containsKey(t, key)

\* resize without the rehash: the old buckets are carried over by index.
resizeNoRehash(t, way) ==
    LET cap == IF way = UP THEN t.capacity * 2 ELSE t.capacity \div 2
    IN  [buckets |-> [i \in 1..cap |->
                        IF i <= Len(t.buckets) THEN t.buckets[i] ELSE <<>>],
         size |-> t.size, capacity |-> cap]

resize(t, way) ==
    LET cap == IF way = UP THEN t.capacity * 2 ELSE t.capacity \div 2
        fresh == [buckets |-> EmptyBuckets(cap), size |-> 0, capacity |-> cap]
    IN  InsertAll(clear(fresh), Flatten(t.buckets, 1))

\* ------------------------------------------------------------------- erase
RemoveAt(s, j) == SubSeq(s, 1, j - 1) \o SubSeq(s, j + 1, Len(s))

erase(t, key) ==
    IF bucketIndex(t, key) = KeyNotFound THEN t
    ELSE LET i == bucketIndex(t, key)
             j == PosIn(Bucket(t, i), key)
             t1 == [t EXCEPT !.buckets[i + 1] = RemoveAt(@, j),
                             !.size = @ - 1]
         IN  IF BelowLowBound(t1) THEN resize(t1, DOWN) ELSE t1

eraseRet(t, key) == bucketIndex(t, key) # KeyNotFound

\* ---------------------------------------------------------------------- at
\* at(key) without the comparison of the keys: the value of the first pair
\* of the key's bucket.
atFirst(t, key) ==
    IF bucketIndex(t, key) = KeyNotFound THEN KeyNotFound
    ELSE Bucket(t, bucketIndex(t, key))[1].second

at(t, key) ==
    IF bucketIndex(t, key) = KeyNotFound THEN KeyNotFound
    ELSE LET b == Bucket(t, bucketIndex(t, key))
         IN  b[PosIn(b, key)].second

bucketSize(t, key) ==
    IF bucketIndex(t, key) = KeyNotFound THEN KeyNotFound
    ELSE Len(Bucket(t, bucketIndex(t, key)))

\* empty(): return _size != 0.
empty(t) == t.size # 0

\* ---------------------------------------------------------------- iterator
\* An iterator is [index, pos]: the bucket _index and the offset of _it in
\* that bucket's vector (0 is begin(), Len is end()).  operator== and
\* operator!= compare _it alone; _it always points into the vector of bucket
\* _index, and positions in different vectors are different pointers, so two
\* iterators compare equal exactly when index and pos agree.
first(t) ==
    IF \E i \in 0..(t.capacity - 1) : Bucket(t, i) # <<>>
    THEN CHOOSE i \in 0..(t.capacity - 1) :
            /\ Bucket(t, i) # <<>>
            /\ \A l \in 0..(i - 1) : Bucket(t, l) = <<>>
    ELSE t.capacity

end(t) == [index |-> t.capacity - 1, pos |-> Len(Bucket(t, t.capacity - 1))]

begin(t) ==
    LET i == first(t)
    IN  IF i = t.capacity THEN end(t) ELSE [index |-> i, pos |-> 0]

\* The while loop of operator++(int): on to the next bucket while _it is at
\* the end of its bucket and a next bucket exists.
RECURSIVE SkipEmpty(_, _)
SkipEmpty(t, it) ==
    IF it.pos = Len(Bucket(t, it.index)) /\ it.index < t.capacity - 1
    THEN SkipEmpty(t, [index |-> it.index + 1, pos |-> 0])
    ELSE it

\* operator++(int)
Incr(t, it) == SkipEmpty(t, [it EXCEPT !.pos = @ + 1])

\* operator*
Deref(t, it) == Bucket(t, it.index)[it.pos + 1]

\* for (auto i = t.begin(); i != t.end(); i++): the pairs *i in turn.  fuel
\* bounds the loop of the model: a traversal that has not reached end()
\* after fuel steps is cut (and is then longer than any table's contents).
RECURSIVE TraverseFrom(_, _, _)
TraverseFrom(t, it, fuel) ==
    IF it = end(t) \/ fuel = 0 THEN <<>>
    ELSE <<Deref(t, it)>> \o TraverseFrom(t, Incr(t, it), fuel - 1)

Traverse(t) == TraverseFrom(t, begin(t), NumKeys + 1)

\* ------------------------------------------------- copy, assignment, [], ==
\* HashMap(const HashMap &other)
CopyOf(other) ==
    InsertAll([buckets |-> EmptyBuckets(other.capacity), size |-> other.size,
               capacity |-> other.capacity],
              Traverse(other))

\* operator=(other); same is (this == &other).
assign(this, other, same) ==
    IF same THEN this
    ELSE InsertAll([buckets |-> EmptyBuckets(other.capacity), size |-> 0,
                    capacity |-> other.capacity],
                   Traverse(other))

\* operator[](key) up to its return: the table, and the handle it returns
\* (bucket h and 1-based position i of the pair whose second is referenced).
\* garbage is the value of the uninitialised local a.
Subscript(t, key, garbage) ==
    LET t1 == IF ~containsKey(t, key) THEN insert(t, key, garbage) ELSE t
        h == hashy(t1, key)
    IN  [table |-> t1, h |-> h, i |-> PosIn(Bucket(t1, h), key)]

\* m[key] = value written with insert(): a present key keeps its value.
SubscriptStoreNoOverwrite(t, key, value) == insert(t, key, value)

\* m[key] = value: a store through the returned reference.
SubscriptStore(t, key, value) ==
    LET r == Subscript(t, key, value)
    IN  [r.table EXCEPT !.buckets[r.h + 1][r.i].second = value]

\* HashMap(keys, values): the while loop, (*this)[keys[index]] = values[index]
\* from index on.
RECURSIVE StoreAll(_, _, _, _)
StoreAll(t, keys, values, index) ==
    IF index = Len(keys) THEN t
    ELSE LET stored == SubscriptStore(t, keys[index + 1], values[index + 1])
         IN  \* _size is unsigned: reading it completes this iteration's
             \* table before the next iteration starts.
             IF stored.size >= 0 THEN StoreAll(stored, keys, values, index + 1)
             ELSE stored

\* keys.size() != values.size(): the constructor throws.
FromVectorsThrows(keys, values) == Len(keys) # Len(values)

\* HashMap(keys, values) when it does not throw.
FromVectors(keys, values) == StoreAll(NewHashMap, keys, values, 0)

\* operator==(other)
RECURSIVE AllMatch(_, _)
AllMatch(this, pairs) ==
    IF pairs = <<>> THEN TRUE
    ELSE IF at(this, Head(pairs).first) = KeyNotFound THEN FALSE
    ELSE IF at(this, Head(pairs).first) # Head(pairs).second THEN FALSE
    ELSE AllMatch(this, Tail(pairs))

Equals(this, other) ==
    IF this.size # other.size THEN FALSE ELSE AllMatch(this, Traverse(other))

\* ------------------------------------------------------------------- state
\* hm: the tables.  last: the operation that produced the state, what it
\* returned, and the resize it went through.  ref: for each table the
\* key-to-value map a client expects from the calls made so far (0: absent).
VARIABLES hm, last, ref

vars == <<hm, last, ref>>

Way(old, new) ==
    IF new.capacity > old.capacity THEN UP
    ELSE IF new.capacity < old.capacity THEN DOWN
    ELSE "none"

Op(name, ret, old, new) == [op |-> name, ret |-> ret, way |-> Way(old, new)]

Init ==
    /\ hm = [t \in Tabs |-> NewHashMap]
    /\ last = [op |-> "new", ret |-> TRUE, way |-> "none"]
    /\ ref = [t \in Tabs |-> [k \in Keys |-> 0]]

\* A result the model goes on with: within the capacity bound, and not a
\* table whose next use is undefined.
Within(t) == t.capacity <= MaxCapacity

Usable(t) == hm[t].capacity > 0

Insert(t, key, value) ==
    /\ Usable(t)
    /\ Within(insert(hm[t], key, value))
    /\ hm' = [hm EXCEPT ![t] = insert(hm[t], key, value)]
    /\ last' = Op("insert", insertRet(hm[t], key), hm[t], hm'[t])
    /\ ref' = [ref EXCEPT ![t][key] = IF @ = 0 THEN value ELSE @]

Erase(t, key) ==
    /\ Usable(t)
    /\ hm' = [hm EXCEPT ![t] = erase(hm[t], key)]
    /\ last' = Op("erase", eraseRet(hm[t], key), hm[t], hm'[t])
    /\ ref' = [ref EXCEPT ![t][key] = 0]

Clear(t) ==
    /\ Usable(t)
    /\ hm' = [hm EXCEPT ![t] = clear(hm[t])]
    /\ last' = Op("clear", TRUE, hm[t], hm'[t])
    /\ ref' = [ref EXCEPT ![t] = [k \in Keys |-> 0]]

\* m[key] read and dropped: an absent key is inserted with a garbage value.
IndexGet(t, key, garbage) ==
    /\ Usable(t)
    /\ Within(Subscript(hm[t], key, garbage).table)
    /\ hm' = [hm EXCEPT ![t] = Subscript(hm[t], key, garbage).table]
    /\ last' = Op("index", TRUE, hm[t], hm'[t])
    /\ ref' = [ref EXCEPT ![t][key] = IF @ = 0 THEN garbage ELSE @]

\* m[key] = value
IndexSet(t, key, value) ==
    /\ Usable(t)
    /\ Within(SubscriptStore(hm[t], key, value))
    /\ hm' = [hm EXCEPT ![t] = SubscriptStore(hm[t], key, value)]
    /\ last' = Op("store", TRUE, hm[t], hm'[t])
    /\ ref' = [ref EXCEPT ![t][key] = value]

\* HashMap dst(src): dst becomes a copy-constructed copy of src.  With
\* dst = src the client goes on with the copy in place of the original.
CopyConstruct(dst, src) ==
    /\ Usable(src)
    /\ Within(CopyOf(hm[src]))
    /\ hm' = [hm EXCEPT ![dst] = CopyOf(hm[src])]
    /\ last' = Op("copy", TRUE, hm[src], hm'[dst])
    /\ ref' = [ref EXCEPT ![dst] = ref[src]]

\* dst = src
Assign(dst, src) ==
    /\ Usable(src)
    /\ hm' = [hm EXCEPT ![dst] = assign(hm[dst], hm[src], dst = src)]
    /\ last' = Op("assign", TRUE, hm[src], hm'[dst])
    /\ ref' = [ref EXCEPT ![dst] = ref[src]]

\* HashMap tmp; tmp = t: the client goes on with tmp in place of t.
AssignFresh(t) ==
    /\ Usable(t)
    /\ hm' = [hm EXCEPT ![t] = assign(NewHashMap, hm[t], FALSE)]
    /\ last' = Op("assign", TRUE, hm[t], hm'[t])
    /\ UNCHANGED ref

\* One table, every operation.
Next ==
    \/ \E key \in Keys, value \in Values : Insert("a", key, value)
    \/ \E key \in Keys : Erase("a", key)
    \/ Clear("a")
    \/ \E key \in Keys, garbage \in Values : IndexGet("a", key, garbage)
    \/ \E key \in Keys, value \in Values : IndexSet("a", key, value)
    \/ CopyConstruct("a", "a")
    \/ AssignFresh("a")

Spec == Init /\ [][Next]_vars

\* One table, the calls made on it alone: insert, erase, the index operator
\* and clear.
NextCalls ==
    \/ \E key \in Keys, value \in Values : Insert("a", key, value)
    \/ \E key \in Keys : Erase("a", key)
    \/ Clear("a")
    \/ \E key \in Keys, garbage \in Values : IndexGet("a", key, garbage)
    \/ \E key \in Keys, value \in Values : IndexSet("a", key, value)

SpecCalls == Init /\ [][NextCalls]_vars

\* Two tables a and b: insert, erase and clear on either, and copy
\* construction and assignment from one to the other.
Next2 ==
    \/ \E t \in Tabs, key \in Keys2, value \in Values : Insert(t, key, value)
    \/ \E t \in Tabs, key \in Keys2 : Erase(t, key)
    \/ \E t \in Tabs : Clear(t)
    \/ \E dst \in Tabs : \E src \in Tabs \ {dst} : CopyConstruct(dst, src)
    \/ \E dst \in Tabs, src \in Tabs : Assign(dst, src)

Spec2 == Init /\ [][Next2]_vars

\* ------------------------------------------------------------ const calls
\* The const member functions: the call's result goes to last, ret is FALSE
\* when the call ends in an exception.
Read(name, key, ret, out) ==
    [op |-> name, ret |-> ret, way |-> "none", key |-> key, out |-> out]

ReadOps == {"at", "bucketSize", "containsKey", "empty"}

At(t, key) ==
    /\ Usable(t)
    /\ last' = Read("at", key, at(hm[t], key) # KeyNotFound, at(hm[t], key))
    /\ UNCHANGED <<hm, ref>>

BucketSize(t, key) ==
    /\ Usable(t)
    /\ last' = Read("bucketSize", key, bucketSize(hm[t], key) # KeyNotFound,
                     bucketSize(hm[t], key))
    /\ UNCHANGED <<hm, ref>>

ContainsKey(t, key) ==
    /\ Usable(t)
    /\ last' = Read("containsKey", key, TRUE, containsKey(hm[t], key))
    /\ UNCHANGED <<hm, ref>>

Empty(t) ==
    /\ last' = Read("empty", 0, TRUE, empty(hm[t]))
    /\ UNCHANGED <<hm, ref>>

\* One table: every operation of Next, and the const calls on what they
\* leave.
NextReads ==
    \/ Next
    \/ \E key \in Keys : At("a", key)
    \/ \E key \in Keys : BucketSize("a", key)
    \/ \E key \in Keys : ContainsKey("a", key)
    \/ Empty("a")

SpecReads == Init /\ [][NextReads]_vars

\* ------------------------------------------- construction from two vectors
SeqsUpTo(S, n) == UNION {[1..m -> S] : m \in 0..n}

LongKeys == [i \in 1..LongRun |-> i]

LongValues == [i \in 1..LongRun |-> 1]

\* HashMap t(keys, values) on the object t at the start of its life.  last
\* keeps the two vectors; ret is FALSE when the constructor threw (and no
\* object exists: the model leaves t as it was).
Construct(t, keys, values) ==
    /\ last.op = "new"
    /\ hm' = [hm EXCEPT ![t] = IF FromVectorsThrows(keys, values) THEN @
                                ELSE FromVectors(keys, values)]
    /\ last' = [op |-> "construct", ret |-> ~FromVectorsThrows(keys, values),
                way |-> Way(hm[t], hm'[t]), keys |-> keys, values |-> values]
    /\ UNCHANGED ref

\* The vectors are any two short vectors, or the long run of distinct keys
\* followed by a short tail, with as many values.
NextConstruct ==
    \/ \E ks \in SeqsUpTo(Keys, MaxLen), vs \in SeqsUpTo(Values, MaxLen) :
           Construct("a", ks, vs)
    \/ \E ks \in SeqsUpTo(Keys, MaxTail) : \E vs \in [1..Len(ks) -> Values] :
           Construct("a", LongKeys \o ks, LongValues \o vs)

SpecConstruct == Init /\ [][NextConstruct]_vars

\* --------------------------------------------------- a long run of calls
\* On a default-constructed table: insert(key, key) for the keys of
\* 1..LongRun in any order, then erase(key) of stored keys in any order until
\* two are left.
Remaining == 2

RunInsert(key) ==
    /\ last.op \in {"new", "run insert"}
    /\ ~containsKey(hm.a, key)
    /\ hm' = [hm EXCEPT !.a = insert(@, key, key)]
    /\ last' = Op("run insert", insertRet(hm.a, key), hm.a, hm'.a)
    /\ UNCHANGED ref

RunErase(key) ==
    /\ \/ last.op = "run insert" /\ \A k \in 1..LongRun : containsKey(hm.a, k)
       \/ last.op = "run erase"
    /\ containsKey(hm.a, key)
    /\ Cardinality({k \in 1..LongRun : containsKey(hm.a, k)}) > Remaining
    /\ hm' = [hm EXCEPT !.a = erase(@, key)]
    /\ last' = Op("run erase", eraseRet(hm.a, key), hm.a, hm'.a)
    /\ UNCHANGED ref

NextRun ==
    \/ \E key \in 1..LongRun : RunInsert(key)
    \/ \E key \in 1..LongRun : RunErase(key)

SpecRun == Init /\ [][NextRun]_vars

\* ------------------------------------------------ the order of insertion
\* insert and erase on one table, each inserted pair carrying as its value
\* the number of the insert call that stored it: one more than the largest
\* number in the table.
Keys3 == 1..NumKeys3

Stamps(t) == {Flatten(t.buckets, 1)[p].second : p \in 1..Len(Flatten(t.buckets, 1))}

NextStamp(t) == 1 + CHOOSE m \in Stamps(t) \cup {0} : \A n \in Stamps(t) : n <= m

OrderInsert(key) ==
    /\ Usable("a")
    /\ NextStamp(hm.a) <= MaxStamp
    /\ hm' = [hm EXCEPT !.a = insert(@, key, NextStamp(hm.a))]
    /\ last' = Op("order insert", insertRet(hm.a, key), hm.a, hm'.a)
    /\ UNCHANGED ref

OrderErase(key) ==
    /\ Usable("a")
    /\ hm' = [hm EXCEPT !.a = erase(@, key)]
    /\ last' = Op("order erase", eraseRet(hm.a, key), hm.a, hm'.a)
    /\ UNCHANGED ref

NextOrder ==
    \/ \E key \in Keys3 : OrderInsert(key)
    \/ \E key \in Keys3 : OrderErase(key)

SpecOrder == Init /\ [][NextOrder]_vars

\* ------------------------------------------------------------ observations
\* Some bucket of the table holds a pair with this key.
Stored(t, key) ==
    \E i \in 1..Len(t.buckets) :
        \E j \in 1..Len(t.buckets[i]) : t.buckets[i][j].first = key

\* What at() gives for every key (KeyNotFound for a key it throws on).
Bindings(t) == [k \in Keys |-> at(t, k)]

\* The sum of the lengths of the buckets.
EntryCount(t) == Len(Flatten(t.buckets, 1))

IsPowerOfTwo(n) == \E e \in 0..(MaxCapLog + 1) : n = Pow2(e)

KeysOf(pairs) == {pairs[i].first : i \in 1..Len(pairs)}

\* ------------------------------------------------------------------ claims

\* C1: insert(k, v) returns true exactly when k was absent before the call;
\* when it returns true, afterwards containsKey(k), at(k) = v and size() is
\* one more than before; when it returns false, size(), capacity() and every
\* key's bound value are as before.
InsertPost(old, new, ret, key, value) ==
    /\ ret = ~Stored(old, key)
    /\ ret => /\ containsKey(new, key)
              /\ at(new, key) = value
              /\ size(new) = size(old) + 1
    /\ ~ret => /\ size(new) = size(old)
               /\ capacity(new) = capacity(old)
               /\ Bindings(new) = Bindings(old)

C1_InsertContract ==
    [][\A key \in Keys, value \in Values :
          Insert("a", key, value) =>
              InsertPost(hm.a, hm'.a, last'.ret, key, value)]_vars

\* C2: erase(k) returns true exactly when k was present before the call; then
\* containsKey(k) is false afterwards, size() is one less than before and
\* every other key keeps its value; when k was absent it returns false and
\* size(), capacity() and all bindings are unchanged.
ErasePost(old, new, ret, key) ==
    /\ ret = Stored(old, key)
    /\ ret => /\ ~containsKey(new, key)
              /\ size(new) = size(old) - 1
              /\ \A k \in Keys \ {key} : at(new, k) = at(old, k)
    /\ ~ret => /\ size(new) = size(old)
               /\ capacity(new) = capacity(old)
               /\ Bindings(new) = Bindings(old)

C2_EraseContract ==
    [][\A key \in Keys :
          Erase("a", key) => ErasePost(hm.a, hm'.a, last'.ret, key)]_vars

\* C3: after clear() every bucket is empty, size() returns 0 and capacity()
\* is the same as before the call.
C3_ClearContract ==
    [][Clear("a") =>
          /\ \A i \in 1..Len(hm'.a.buckets) : hm'.a.buckets[i] = <<>>
          /\ size(hm'.a) = 0
          /\ capacity(hm'.a) = capacity(hm.a)]_vars

\* C4: in every state reached from a default-constructed table by insert,
\* erase, index-operator and clear calls, capacity() is a power of two and is
\* at least 16.
C4_CapacityFloor ==
    /\ IsPowerOfTwo(capacity(hm.a))
    /\ capacity(hm.a) >= DEF_CAPACITY

\* C5: in every state reached by completed public operations, size() equals
\* the sum of the lengths of all buckets.
C5_SizeIsEntryCount == size(hm.a) = EntryCount(hm.a)

\* C6: after any insert or erase call completes, 0.25 <= size()/capacity()
\* <= 0.75, the lower bound not being required at the floor capacity 16.
C6_LoadFactorBounds ==
    last.op \in {"insert", "erase"} =>
        /\ 4 * size(hm.a) <= 3 * capacity(hm.a)
        /\ capacity(hm.a) # DEF_CAPACITY => 4 * size(hm.a) >= capacity(hm.a)

\* C7: whatever grow and shrink resizes happened, every key written (by
\* insert or through the index operator) and not erased since is contained
\* and at() returns the value last written for it, and every key erased and
\* not written again is absent.
C7_ResizeKeepsBindings ==
    \A t \in Tabs : \A k \in Keys :
        /\ ref[t][k] # 0 => containsKey(hm[t], k) /\ at(hm[t], k) = ref[t][k]
        /\ ref[t][k] = 0 => ~containsKey(hm[t], k) /\ ~Stored(hm[t], k)

\* A table that was shrunk below the initial capacity and has just grown
\* again on an insert, holding one key and lacking another.
C7_Witness ==
    /\ last.op = "insert"
    /\ last.way = UP
    /\ capacity(hm.a) < DEF_CAPACITY
    /\ \E k \in Keys : ref.a[k] # 0 /\ at(hm.a, k) = ref.a[k]
    /\ \E k \in Keys : ref.a[k] = 0

\* C8: stepping a cursor from begin() with ++ until it equals end() ends and
\* yields exactly size() pairs, with distinct keys, and the keys yielded are
\* exactly the keys containsKey is true of.
C8_TraversalComplete ==
    LET pairs == Traverse(hm.a)
    IN  /\ Len(pairs) = size(hm.a)
        /\ \A i, j \in 1..Len(pairs) : pairs[i].first = pairs[j].first => i = j
        /\ KeysOf(pairs) = {k \in Keys : containsKey(hm.a, k)}

\* C9: the table copy-constructed from s has s's capacity(), s's size() and
\* exactly s's key-to-value bindings (copy == s).
C9_CopyConstructContract ==
    [][CopyConstruct("a", "a") =>
          /\ capacity(hm'.a) = capacity(hm.a)
          /\ size(hm'.a) = size(hm.a)
          /\ Bindings(hm'.a) = Bindings(hm.a)
          /\ Equals(hm'.a, hm.a)]_vars

\* C10: (a == b) gives what (b == a) gives, and is true exactly when
\* a.size() = b.size() and every key contained in a is contained in b with
\* an equal value.
C10_EqualitySymmetric ==
    /\ Equals(hm.a, hm.b) = Equals(hm.b, hm.a)
    /\ Equals(hm.a, hm.b) <=>
          /\ size(hm.a) = size(hm.b)
          /\ \A k \in Keys :
                containsKey(hm.a, k) =>
                    containsKey(hm.b, k) /\ at(hm.b, k) = at(hm.a, k)

\* C11: the table constructed from equal-length vectors keys and values has
\* as its size() the number of distinct keys in keys, and for every key k in
\* keys at(k) is the value at the position of the last occurrence of k.
LastOccurrence(ks, k) ==
    CHOOSE i \in 1..Len(ks) : ks[i] = k /\ \A j \in (i + 1)..Len(ks) : ks[j] # k

C11_ConstructLastWins ==
    (last.op = "construct" /\ last.ret) =>
        /\ size(hm.a) = Cardinality({last.keys[i] : i \in 1..Len(last.keys)})
        /\ \A i \in 1..Len(last.keys) :
              at(hm.a, last.keys[i]) =
                  last.values[LastOccurrence(last.keys, last.keys[i])]

\* keys = [a, b, a] with two different values for a.
C11_Witness ==
    /\ last.op = "construct"
    /\ last.ret
    /\ Len(last.keys) = 3
    /\ last.keys[1] = last.keys[3]
    /\ last.keys[1] # last.keys[2]
    /\ last.values[1] # last.values[3]

\* The same after the long run: the constructor went through a grow resize.
C11_WitnessGrow ==
    /\ last.op = "construct"
    /\ last.ret
    /\ last.way = UP
    /\ Len(last.keys) > LongRun

\* C12: at(k) and bucketSize(k) end in KeyNotFound exactly when k is absent
\* and otherwise return k's bound value and the number of entries of k's
\* bucket; containsKey(k) never ends in an error and returns true exactly
\* when k is present; none of the three changes size, capacity or a bucket.
SameBucket(t, key) == {k \in Keys : Stored(t, k) /\ hashy(t, k) = hashy(t, key)}

ReadPost(old, new, call, expected) ==
    /\ new = old
    /\ call.op = "at" =>
           /\ call.ret = Stored(old, call.key)
           /\ call.ret => call.out = expected[call.key]
    /\ call.op = "bucketSize" =>
           /\ call.ret = Stored(old, call.key)
           /\ call.ret => call.out = Cardinality(SameBucket(old, call.key))
    /\ call.op = "containsKey" =>
           /\ call.ret
           /\ call.out = Stored(old, call.key)

C12_ReadsContract ==
    [][last'.op \in {"at", "bucketSize", "containsKey"}
           => ReadPost(hm.a, hm'.a, last', ref.a)]_vars

C12_Witness ==
    /\ last.op = "at"
    /\ last.ret
    /\ PosIn(Bucket(hm.a, hashy(hm.a, last.key)), last.key) = 2

C12_WitnessThrow == last.op = "bucketSize" /\ ~last.ret /\ EntryCount(hm.a) > 0

\* C13: after m[k] on an absent k, k is present and size() is one more than
\* before; on a present k, size(), capacity() and all bindings are unchanged.
\* The returned handle denotes k's entry in the bucket k hashes to under the
\* capacity after the call, so that m[k] = v makes at(k) = v.
SubscriptPost(old, r, key) ==
    /\ ~Stored(old, key) => /\ Stored(r.table, key)
                            /\ size(r.table) = size(old) + 1
    /\ Stored(old, key) => r.table = old
    /\ r.h = hashy(r.table, key)
    /\ r.i \in 1..Len(Bucket(r.table, r.h))
    /\ Bucket(r.table, r.h)[r.i].first = key

C13_IndexContract ==
    [][\A key \in Keys, value \in Values :
          /\ IndexGet("a", key, value) =>
                 SubscriptPost(hm.a, Subscript(hm.a, key, value), key)
          /\ IndexSet("a", key, value) =>
                 /\ SubscriptPost(hm.a, Subscript(hm.a, key, value), key)
                 /\ at(hm'.a, key) = value]_vars

\* C14: on a default-constructed table, after inserting 13 distinct keys the
\* capacity is 32 and all 13 are retrievable; after then erasing 11 of them
\* the capacity is 16, the 2 remaining keys are retrievable with their values
\* and the 11 erased keys report containsKey = false.
InRun(t) == {k \in 1..LongRun : Stored(t, k)}

C14_GrowThenShrink ==
    /\ (last.op = "run insert" /\ Cardinality(InRun(hm.a)) = LongRun) =>
           /\ capacity(hm.a) = 2 * DEF_CAPACITY
           /\ \A k \in 1..LongRun : at(hm.a, k) = k
    /\ (last.op = "run erase" /\ Cardinality(InRun(hm.a)) = Remaining) =>
           /\ capacity(hm.a) = DEF_CAPACITY
           /\ \A k \in InRun(hm.a) : at(hm.a, k) = k
           /\ \A k \in (1..LongRun) \ InRun(hm.a) : ~containsKey(hm.a, k)

\* C15: empty() returns true if and only if the map holds no entries.
C15_EmptyContract ==
    last.op = "empty" => (last.out <=> EntryCount(hm.a) = 0)

\* C16: in every reachable state each key occurs in at most one entry of the
\* whole table, and every entry (k, v) is in the bucket of index
\* hash(k) & (capacity - 1) for the current capacity.
Entries(t) == Flatten(t.buckets, 1)

C16_UniqueAndPlaced ==
    /\ \A p, q \in 1..Len(Entries(hm.a)) :
           Entries(hm.a)[p].first = Entries(hm.a)[q].first => p = q
    /\ \A i \in 1..Len(hm.a.buckets) : \A j \in 1..Len(hm.a.buckets[i]) :
           i - 1 = BitAnd(Hash(hm.a.buckets[i][j].first), capacity(hm.a) - 1)

C16_Witness ==
    /\ capacity(hm.a) < DEF_CAPACITY
    /\ \E i \in 1..Len(hm.a.buckets) : Len(hm.a.buckets[i]) = 2

\* C17: one call changes capacity by at most one doubling or one halving.
\* An insert of a new key doubles it exactly when the load factor after the
\* append is above 0.75, a successful erase halves it exactly when the load
\* factor after the removal is below 0.25 (the re-insertions of a resize
\* trigger no further resize); erase of an absent key, insert of a present
\* key and clear leave it as it is.
InsertCapacity(old, key) ==
    IF ~Stored(old, key) /\ 4 * (size(old) + 1) > 3 * capacity(old)
    THEN 2 * capacity(old)
    ELSE capacity(old)

EraseCapacity(old, key) ==
    IF Stored(old, key) /\ 4 * (size(old) - 1) < capacity(old)
    THEN capacity(old) \div 2
    ELSE capacity(old)

C17_OneResizePerCall ==
    [][/\ last'.op = "insert" =>
             \A key \in Keys, value \in Values :
                 Insert("a", key, value) =>
                     capacity(hm'.a) = InsertCapacity(hm.a, key)
       /\ last'.op = "erase" =>
             \A key \in Keys :
                 Erase("a", key) => capacity(hm'.a) = EraseCapacity(hm.a, key)
       /\ last'.op = "clear" => capacity(hm'.a) = capacity(hm.a)]_vars

C17_Witness ==
    /\ last.op = "erase"
    /\ last.way = DOWN
    /\ EntryCount(hm.a) >= 1

C17_WitnessGrow ==
    /\ last.op = "insert"
    /\ last.way = UP
    /\ size(hm.a) = EntryCount(hm.a)

\* C18: a full traversal from begin() to end() visits entries in
\* non-decreasing bucket index, and entries that share a bucket in the order
\* in which the client inserted their keys, also after grow and shrink
\* resizes and erasures.
Visit(t) == TraverseFrom(t, begin(t), NumKeys3 + 1)

BucketMajor(t) ==
    /\ Len(Visit(t)) = EntryCount(t)
    /\ \A p, q \in 1..Len(Visit(t)) :
           p < q => hashy(t, Visit(t)[p].first) <= hashy(t, Visit(t)[q].first)

InsertionOrdered(t) ==
    \A p, q \in 1..Len(Visit(t)) :
        (p < q /\ hashy(t, Visit(t)[p].first) = hashy(t, Visit(t)[q].first))
            => Visit(t)[p].second < Visit(t)[q].second

C18_TraversalOrder == BucketMajor(hm.a) /\ InsertionOrdered(hm.a)

\* C18, amended: the traversal is bucket-major in every state, and a call
\* that does not shrink the table keeps the entries that share a bucket in
\* the order of insertion (a shrink merges two buckets in the order of their
\* old indices, whatever the order of insertion).
C18_OrderKeptWithoutShrink ==
    [][/\ BucketMajor(hm'.a)
       /\ (InsertionOrdered(hm.a) /\ last'.way # DOWN)
              => InsertionOrdered(hm'.a)]_vars

C18_Witness ==
    /\ last.way = UP
    /\ InsertionOrdered(hm.a)
    /\ \E i \in 1..Len(hm.a.buckets) :
           /\ Len(hm.a.buckets[i]) = 2
           /\ hm.a.buckets[i][1].first > hm.a.buckets[i][2].first

\* C19: for distinct objects a and b, after a = b: a.capacity() =
\* b.capacity(), a.size() = b.size(), a has exactly the bindings of b
\* (a == b holds) and b is unchanged; a later insert or erase on a leaves
\* b's size, capacity and bindings unchanged.
AssignPost(a, b, oldb) ==
    /\ capacity(a) = capacity(b)
    /\ size(a) = size(b)
    /\ Bindings(a) = Bindings(b)
    /\ Equals(a, b)
    /\ b = oldb

C19_AssignContract ==
    [][/\ last'.op = "assign" =>
             \A dst \in Tabs : \A src \in Tabs \ {dst} :
                 Assign(dst, src) => AssignPost(hm'[dst], hm'[src], hm[src])
       /\ last'.op \in {"insert", "erase"} =>
             \A t \in Tabs : hm'[t] # hm[t] =>
                 \A other \in Tabs \ {t} : hm'[other] = hm[other]]_vars

\* C20: in every reachable state the capacity is a power of two that is at
\* least 1 (never 0 or negative), so that the bucket index
\* hash(k) & (capacity - 1) is within [0, capacity) and the load factor
\* never divides by zero.
C20_CapacityPositive ==
    /\ IsPowerOfTwo(capacity(hm.a))
    /\ capacity(hm.a) >= 1
    /\ Len(hm.a.buckets) = capacity(hm.a)
    /\ \A k \in Keys : hashy(hm.a, k) \in 0..(capacity(hm.a) - 1)

C20_Witness == capacity(hm.a) = 1 /\ last.way = DOWN

====
